---- MODULE Spec2Model ----
(***************************************************************************)
(* Model of SistemaTransporte (src/encuentra-rutas.py): the construction   *)
(* of the networkx graph from the station and route records, and the       *)
(* routing query encontrar_ruta with its two search algorithms and the     *)
(* decomposition of the path found into segment records.                   *)
(*                                                                         *)
(* Python dicts are functions whose DOMAIN is the set of keys present, in  *)
(* particular the attribute dict of an edge, which gains the key           *)
(* "combinado" when a combined query has run.  A dict that keeps insertion *)
(* order and is iterated (the adjacency of a node, the nodes of the graph) *)
(* is a sequence of keys.  None / a value is <<>> / <<value>>.             *)
(* The combined weight 0.5*t + 0.3*c + 0.2*d is kept in tenths, as the     *)
(* integer 5*t + 3*c + 2*d; floating-point rounding is not modelled.       *)
(***************************************************************************)
EXTENDS Integers, Sequences, FiniteSets, TLC

VARIABLES datos, G, pc, consulta, res, registro, busquedas, hilos

vars == <<datos, G, pc, consulta, res, registro, busquedas, hilos>>

None == <<>>
Some(x) == <<x>>

EmptyDict == [k \in {} |-> 0]

\* dict.get(k, default)
Get(d, k, default) == IF k \in DOMAIN d THEN d[k] ELSE default

\* dict.update: the keys of nuevo override those of d
Update(d, nuevo) == nuevo @@ d

Contains(s, x) == \E i \in 1..Len(s) : s[i] = x

-----------------------------------------------------------------------------
(* The graph: nx.Graph()                                                   *)

GrafoVacio == [nodes |-> <<>>, attr |-> EmptyDict, adj |-> EmptyDict, edge |-> EmptyDict]

NodeSet(g) == {g.nodes[i] : i \in 1..Len(g.nodes)}

\* G.add_node(n, **attrs)
add_node(g, n, attrs) ==
    IF n \in NodeSet(g)
    THEN [g EXCEPT !.attr[n] = Update(@, attrs)]
    ELSE [g EXCEPT !.nodes = Append(@, n),
                   !.attr = (n :> attrs) @@ @,
                   !.adj = (n :> <<>>) @@ @]

\* add_edge that keeps the attributes an existing edge already has
add_edge_primero(g, u, v, attrs) ==
    LET g1 == IF u \in NodeSet(g) THEN g ELSE add_node(g, u, EmptyDict)
        g2 == IF v \in NodeSet(g1) THEN g1 ELSE add_node(g1, v, EmptyDict)
        datadict == Update(attrs, Get(g2.edge, {u, v}, EmptyDict))
        g3 == [g2 EXCEPT !.adj[u] = IF Contains(@, v) THEN @ ELSE Append(@, v)]
        g4 == [g3 EXCEPT !.adj[v] = IF Contains(@, u) THEN @ ELSE Append(@, u)]
    IN [g4 EXCEPT !.edge = ({u, v} :> datadict) @@ @]

\* G.add_edge(u, v, **attrs): absent endpoints are added without attributes;
\* an existing edge keeps its place in both adjacencies and its dict is updated
add_edge(g, u, v, attrs) ==
    LET g1 == IF u \in NodeSet(g) THEN g ELSE add_node(g, u, EmptyDict)
        g2 == IF v \in NodeSet(g1) THEN g1 ELSE add_node(g1, v, EmptyDict)
        datadict == Update(Get(g2.edge, {u, v}, EmptyDict), attrs)
        g3 == [g2 EXCEPT !.adj[u] = IF Contains(@, v) THEN @ ELSE Append(@, v)]
        g4 == [g3 EXCEPT !.adj[v] = IF Contains(@, u) THEN @ ELSE Append(@, u)]
    IN [g4 EXCEPT !.edge = ({u, v} :> datadict) @@ @]

\* G.get_edge_data(u, v): the attribute dict, or None
get_edge_data(g, u, v) ==
    IF {u, v} \in DOMAIN g.edge THEN Some(g.edge[{u, v}]) ELSE None

-----------------------------------------------------------------------------
(* networkx shortest paths, as called at lines 196-200 (no heuristic).     *)

\* _weight_function(G, weight): lambda u, v, data: data.get(weight, 1)
Peso(d, weight) == Get(d, weight, 1)

\* heappop: the least entry, ordered by its first component and then by the
\* insertion counter in its second
HeapMin(h) ==
    CHOOSE x \in h : \A y \in h : x[1] < y[1] \/ (x[1] = y[1] /\ x[2] <= y[2])

\* DijkstraRelax that subtracts the cost of the edge instead of adding it
RECURSIVE DijkstraRelaxResta(_, _, _, _, _)
DijkstraRelaxResta(g, weight, st, v, i) ==
    IF i > Len(g.adj[v]) \/ st.err # "" THEN st
    ELSE LET u == g.adj[v][i]
             cost == Peso(g.edge[{u, v}], weight)
             vu_dist == st.dist[v] - cost
             st2 == IF u \in DOMAIN st.dist
                    THEN IF vu_dist < st.dist[u]
                         THEN [st EXCEPT !.err = "ValueError"]
                         ELSE st
                    ELSE IF u \notin DOMAIN st.seen \/ vu_dist < st.seen[u]
                         THEN [st EXCEPT !.seen = (u :> vu_dist) @@ @,
                                         !.fringe = @ \cup {<<vu_dist, st.c, u>>},
                                         !.c = @ + 1,
                                         !.paths = (u :> Append(st.paths[v], u)) @@ @]
                         ELSE st
         IN DijkstraRelaxResta(g, weight, st2, v, i + 1)

\* the loop "for u, e in G_succ[v].items()" of _dijkstra_multisource
RECURSIVE DijkstraRelax(_, _, _, _, _)
DijkstraRelax(g, weight, st, v, i) ==
    IF i > Len(g.adj[v]) \/ st.err # "" THEN st
    ELSE LET u == g.adj[v][i]
             cost == Peso(g.edge[{u, v}], weight)
             vu_dist == st.dist[v] + cost
             st2 == IF u \in DOMAIN st.dist
                    THEN IF vu_dist < st.dist[u]
                         THEN [st EXCEPT !.err = "ValueError"]
                         ELSE st
                    ELSE IF u \notin DOMAIN st.seen \/ vu_dist < st.seen[u]
                         THEN [st EXCEPT !.seen = (u :> vu_dist) @@ @,
                                         !.fringe = @ \cup {<<vu_dist, st.c, u>>},
                                         !.c = @ + 1,
                                         !.paths = (u :> Append(st.paths[v], u)) @@ @]
                         ELSE st
         IN DijkstraRelax(g, weight, st2, v, i + 1)

\* the loop "while fringe" of _dijkstra_multisource
RECURSIVE DijkstraLoop(_, _, _, _)
DijkstraLoop(g, weight, target, st) ==
    IF st.fringe = {} \/ st.err # "" THEN st
    ELSE LET top == HeapMin(st.fringe)
             d == top[1]
             v == top[3]
             rest == [st EXCEPT !.fringe = @ \ {top}]
         IN IF v \in DOMAIN st.dist THEN DijkstraLoop(g, weight, target, rest)
            ELSE LET st1 == [rest EXCEPT !.dist = (v :> d) @@ @]
                 IN IF v = target THEN st1
                    ELSE DijkstraLoop(g, weight, target,
                                      DijkstraRelax(g, weight, st1, v, 1))

\* _dijkstra_multisource(G, {source}, weight, paths, target)
DijkstraMultisource(g, source, target, weight) ==
    DijkstraLoop(g, weight, target,
                 [dist |-> EmptyDict,
                  seen |-> (source :> 0),
                  paths |-> (source :> <<source>>),
                  fringe |-> {<<0, 0, source>>},
                  c |-> 1,
                  err |-> ""])

\* dijkstra_path that lets the KeyError of the missing target through
dijkstra_path_KeyError(g, source, target, weight) ==
    IF source \notin NodeSet(g) THEN [exc |-> "NodeNotFound", val |-> None]
    ELSE IF target = source THEN [exc |-> "", val |-> Some(<<target>>)]
    ELSE LET st == DijkstraMultisource(g, source, target, weight)
         IN IF st.err # "" THEN [exc |-> st.err, val |-> None]
            ELSE IF target \in DOMAIN st.dist
                 THEN [exc |-> "", val |-> Some(st.paths[target])]
                 ELSE [exc |-> "KeyError", val |-> None]

\* nx.dijkstra_path: the path, or the exception raised
dijkstra_path(g, source, target, weight) ==
    IF source \notin NodeSet(g) THEN [exc |-> "NodeNotFound", val |-> None]
    ELSE IF target = source THEN [exc |-> "", val |-> Some(<<target>>)]
    ELSE LET st == DijkstraMultisource(g, source, target, weight)
         IN IF st.err # "" THEN [exc |-> st.err, val |-> None]
            ELSE IF target \in DOMAIN st.dist
                 THEN [exc |-> "", val |-> Some(st.paths[target])]
                 ELSE [exc |-> "NetworkXNoPath", val |-> None]

\* nx.dijkstra_path_length: a second search, which returns dist[target]
dijkstra_path_length(g, source, target, weight) ==
    IF source \notin NodeSet(g) THEN [exc |-> "NodeNotFound", val |-> None]
    ELSE IF target = source THEN [exc |-> "", val |-> Some(0)]
    ELSE LET st == DijkstraMultisource(g, source, target, weight)
         IN IF st.err # "" THEN [exc |-> st.err, val |-> None]
            ELSE IF target \in DOMAIN st.dist
                 THEN [exc |-> "", val |-> Some(st.dist[target])]
                 ELSE [exc |-> "NetworkXNoPath", val |-> None]

\* the path read back from the explored parents, target first, then reversed
RECURSIVE AstarBack(_, _, _)
AstarBack(explored, node, path) ==
    IF node = None THEN path
    ELSE AstarBack(explored, explored[node[1]], <<node[1]>> \o path)

\* AstarExpand that keeps the first cost found for a neighbour already enqueued
RECURSIVE AstarExpandSinMejora(_, _, _, _, _, _)
AstarExpandSinMejora(g, weight, st, curnode, dist, i) ==
    IF i > Len(g.adj[curnode]) THEN st
    ELSE LET neighbor == g.adj[curnode][i]
             cost == Peso(g.edge[{curnode, neighbor}], weight)
             ncost == dist + cost
             st2 == IF neighbor \in DOMAIN st.enqueued
                    THEN st
                    ELSE [st EXCEPT !.enqueued = (neighbor :> <<ncost, 0>>) @@ @,
                                    !.queue = @ \cup {<<ncost, st.c, neighbor, ncost, Some(curnode)>>},
                                    !.c = @ + 1]
         IN AstarExpandSinMejora(g, weight, st2, curnode, dist, i + 1)

\* the loop "for neighbor, w in G_succ[curnode].items()" of astar_path
RECURSIVE AstarExpand(_, _, _, _, _, _)
AstarExpand(g, weight, st, curnode, dist, i) ==
    IF i > Len(g.adj[curnode]) THEN st
    ELSE LET neighbor == g.adj[curnode][i]
             cost == Peso(g.edge[{curnode, neighbor}], weight)
             ncost == dist + cost
             h == 0
             st2 == IF neighbor \in DOMAIN st.enqueued /\ st.enqueued[neighbor][1] <= ncost
                    THEN st
                    ELSE [st EXCEPT !.enqueued = (neighbor :> <<ncost, h>>) @@ @,
                                    !.queue = @ \cup {<<ncost + h, st.c, neighbor, ncost, Some(curnode)>>},
                                    !.c = @ + 1]
         IN AstarExpand(g, weight, st2, curnode, dist, i + 1)

\* the loop "while queue" of astar_path
RECURSIVE AstarLoop(_, _, _, _)
AstarLoop(g, weight, target, st) ==
    IF st.queue = {} THEN [exc |-> "NetworkXNoPath", val |-> None]
    ELSE LET top == HeapMin(st.queue)
             curnode == top[3]
             dist == top[4]
             parent == top[5]
             rest == [st EXCEPT !.queue = @ \ {top}]
         IN IF curnode = target
            THEN [exc |-> "", val |-> Some(AstarBack(st.explored, parent, <<curnode>>))]
            ELSE IF curnode \in DOMAIN st.explored
                    /\ (st.explored[curnode] = None \/ st.enqueued[curnode][1] < dist)
                 THEN AstarLoop(g, weight, target, rest)
                 ELSE AstarLoop(g, weight, target,
                                AstarExpand(g, weight,
                                            [rest EXCEPT !.explored = (curnode :> parent) @@ @],
                                            curnode, dist, 1))

\* nx.astar_path with heuristic=None
astar_path(g, source, target, weight) ==
    IF source \notin NodeSet(g) \/ target \notin NodeSet(g)
    THEN [exc |-> "NodeNotFound", val |-> None]
    ELSE AstarLoop(g, weight, target,
                   [queue |-> {<<0, 0, source, 0, None>>},
                    enqueued |-> EmptyDict,
                    explored |-> EmptyDict,
                    c |-> 1])

\* SumaCamino that leaves out the first edge of the path
RECURSIVE SumaCaminoSinPrimero(_, _, _, _)
SumaCaminoSinPrimero(g, path, weight, i) ==
    IF i + 1 >= Len(path) THEN 0
    ELSE Peso(g.edge[{path[i + 1], path[i + 2]}], weight)
         + SumaCaminoSinPrimero(g, path, weight, i + 1)

\* sum(weight(u, v, G[u][v]) for u, v in zip(path[:-1], path[1:]))
RECURSIVE SumaCamino(_, _, _, _)
SumaCamino(g, path, weight, i) ==
    IF i >= Len(path) THEN 0
    ELSE Peso(g.edge[{path[i], path[i + 1]}], weight) + SumaCamino(g, path, weight, i + 1)

\* nx.astar_path_length: a second astar_path, then the sum over its edges
astar_path_length(g, source, target, weight) ==
    LET r == astar_path(g, source, target, weight)
    IN IF r.exc # "" THEN r
       ELSE [exc |-> "", val |-> Some(SumaCamino(g, r.val[1], weight, 1))]

-----------------------------------------------------------------------------
(* SistemaTransporte                                                       *)

\* validar_estacion: id_estacion in self.G.nodes
validar_estacion(g, id_estacion) == id_estacion \in NodeSet(g)

\* the row of one segment, numbered n
Fila(g, n, origen, destino, datos_arista) ==
       ("Segmento" :> ToString(n))
    @@ ("Origen ID" :> origen)
    @@ ("Destino ID" :> destino)
    @@ ("Origen" :> g.attr[origen]["nombre"])
    @@ ("Destino" :> g.attr[destino]["nombre"])
    @@ ("Tiempo (min)" :> datos_arista["tiempo"])
    @@ ("Costo ($)" :> datos_arista["costo"])
    @@ ("Distancia (km)" :> Get(datos_arista, "distancia", "N/A"))
    @@ ("Medio" :> Get(datos_arista, "medio", "bus"))
    @@ ("Frecuencia (min)" :> Get(datos_arista, "frecuencia", "N/A"))

\* the body of the loop of _generar_detalles_ruta for the segment that
\* starts at camino[i], numbered n: its row, or the exception raised
FilaDe(g, camino, i, n) ==
    LET origen == camino[i]
        destino == camino[i + 1]
        datos_arista == get_edge_data(g, origen, destino)
    IN IF origen \notin NodeSet(g) \/ "nombre" \notin DOMAIN g.attr[origen]
          \/ destino \notin NodeSet(g) \/ "nombre" \notin DOMAIN g.attr[destino]
       THEN [exc |-> "KeyError", val |-> None]
       ELSE IF datos_arista = None
       THEN [exc |-> "TypeError", val |-> None]
       ELSE IF "tiempo" \notin DOMAIN datos_arista[1] \/ "costo" \notin DOMAIN datos_arista[1]
       THEN [exc |-> "KeyError", val |-> None]
       ELSE [exc |-> "", val |-> Some(Fila(g, n, origen, destino, datos_arista[1]))]

\* DetallesDesde that leaves out the last segment
RECURSIVE DetallesSinUltimo(_, _, _, _)
DetallesSinUltimo(g, camino, i, detalles) ==
    IF i >= Len(camino) - 1 THEN [exc |-> "", val |-> Some(detalles)]
    ELSE LET f == FilaDe(g, camino, i, i)
         IN IF f.exc # "" THEN f
            ELSE DetallesSinUltimo(g, camino, i + 1, Append(detalles, f.val[1]))

\* DetallesDesde that numbers the segments from 0
RECURSIVE DetallesDesdeCero(_, _, _, _)
DetallesDesdeCero(g, camino, i, detalles) ==
    IF i >= Len(camino) THEN [exc |-> "", val |-> Some(detalles)]
    ELSE LET f == FilaDe(g, camino, i, i - 1)
         IN IF f.exc # "" THEN f
            ELSE DetallesDesdeCero(g, camino, i + 1, Append(detalles, f.val[1]))

\* the loop of _generar_detalles_ruta, from index i (1-based)
RECURSIVE DetallesDesde(_, _, _, _)
DetallesDesde(g, camino, i, detalles) ==
    IF i >= Len(camino) THEN [exc |-> "", val |-> Some(detalles)]
    ELSE LET f == FilaDe(g, camino, i, i)
         IN IF f.exc # "" THEN f
            ELSE DetallesDesde(g, camino, i + 1, Append(detalles, f.val[1]))

\* _generar_detalles_ruta: the rows of the DataFrame, or the exception raised
_generar_detalles_ruta(g, camino, criterio) == DetallesDesde(g, camino, 1, <<>>)

\* d["combinado"] of one edge, in tenths
Combinado(d) == 5 * d["tiempo"] + 3 * d["costo"] + 2 * Get(d, "distancia", 0)

\* for u, v, d in self.G.edges(data=True): d["combinado"] = ...
AdjuntarCombinado(g) ==
    [g EXCEPT !.edge = [e \in DOMAIN g.edge |-> ("combinado" :> Combinado(g.edge[e])) @@ g.edge[e]]]

\* self.G.edges: the nodes in insertion order, for each the neighbours in
\* insertion order that are not a node already visited
RECURSIVE AristasDesde(_, _)
AristasDesde(g, i) ==
    IF i > Len(g.nodes) THEN <<>>
    ELSE LET n == g.nodes[i]
             NoVisto(v) == \A k \in 1..(i - 1) : g.nodes[k] # v
             vecinos == SelectSeq(g.adj[n], NoVisto)
         IN [k \in 1..Len(vecinos) |-> {n, vecinos[k]}] \o AristasDesde(g, i + 1)

Aristas(g) == AristasDesde(g, 1)

\* the assignment that leaves an edge the combined value it already has
ConCombinadoSiFalta(g, e, valor) ==
    [g EXCEPT !.edge[e] = IF "combinado" \in DOMAIN @ THEN @ ELSE ("combinado" :> valor) @@ @]

\* the assignment that adds the value to the one the edge already has
ConCombinadoAcumulado(g, e, valor) ==
    [g EXCEPT !.edge[e] = ("combinado" :> (Get(@, "combinado", 0) + valor)) @@ @]

\* d["combinado"] = valor, for the data d of the edge e
ConCombinado(g, e, valor) ==
    [g EXCEPT !.edge[e] = ("combinado" :> valor) @@ @]

Sin == [camino |-> None, valor |-> None, etiqueta |-> None, detalles |-> None]

Criterios == {"costo", "tiempo", "distancia", "combinado"}
Algoritmos == {"dijkstra", "astar"}

EtiquetaValor(criterio) ==
    CASE criterio = "costo" -> "Costo total ($)"
      [] criterio = "tiempo" -> "Tiempo total (min)"
      [] criterio = "distancia" -> "Distancia total (km)"
      [] criterio = "combinado" -> "Valor combinado"

\* BuscarRuta that takes any unrecognised algorithm for "dijkstra"
BuscarRutaPorDefecto(g, origen, destino, criterio, algoritmo) ==
    LET camino == IF algoritmo # "astar"
                  THEN dijkstra_path(g, origen, destino, criterio)
                  ELSE astar_path(g, origen, destino, criterio)
        valor == IF algoritmo # "astar"
                 THEN dijkstra_path_length(g, origen, destino, criterio)
                 ELSE astar_path_length(g, origen, destino, criterio)
        exc1 == IF camino.exc # "" THEN camino.exc ELSE valor.exc
        detalles == _generar_detalles_ruta(g, camino.val[1], criterio)
        exc == IF exc1 # "" THEN exc1 ELSE detalles.exc
        n == IF camino.exc # "" THEN 1 ELSE 2
    IN IF exc = ""
       THEN [res |-> [camino |-> camino.val, valor |-> valor.val,
                      etiqueta |-> Some(EtiquetaValor(criterio)),
                      detalles |-> detalles.val],
             registro |-> "", busquedas |-> n]
       ELSE IF exc = "NetworkXNoPath"
       THEN [res |-> Sin, registro |-> "no_existe_ruta", busquedas |-> n]
       ELSE [res |-> Sin, registro |-> "error_al_buscar", busquedas |-> n]

\* the try block of encontrar_ruta (lines 193-215)
BuscarRuta(g, origen, destino, criterio, algoritmo) ==
    IF algoritmo \notin Algoritmos
    THEN [res |-> Sin, registro |-> "algoritmo_no_valido", busquedas |-> 0]
    ELSE LET camino == IF algoritmo = "dijkstra"
                       THEN dijkstra_path(g, origen, destino, criterio)
                       ELSE astar_path(g, origen, destino, criterio)
             valor == IF algoritmo = "dijkstra"
                      THEN dijkstra_path_length(g, origen, destino, criterio)
                      ELSE astar_path_length(g, origen, destino, criterio)
             exc1 == IF camino.exc # "" THEN camino.exc ELSE valor.exc
             detalles == _generar_detalles_ruta(g, camino.val[1], criterio)
             exc == IF exc1 # "" THEN exc1 ELSE detalles.exc
             n == IF camino.exc # "" THEN 1 ELSE 2
         IN IF exc = ""
            THEN [res |-> [camino |-> camino.val, valor |-> valor.val,
                           etiqueta |-> Some(EtiquetaValor(criterio)),
                           detalles |-> detalles.val],
                  registro |-> "", busquedas |-> n]
            ELSE IF exc = "NetworkXNoPath"
            THEN [res |-> Sin, registro |-> "no_existe_ruta", busquedas |-> n]
            ELSE [res |-> Sin, registro |-> "error_al_buscar", busquedas |-> n]

\* encontrar_ruta that resolves the criterion before the test for equal stations
encontrar_ruta_criterio_antes(g, origen, destino, criterio, algoritmo) ==
    IF ~validar_estacion(g, origen)
    THEN [G |-> g, res |-> Sin, registro |-> "origen_no_encontrada", busquedas |-> 0]
    ELSE IF ~validar_estacion(g, destino)
    THEN [G |-> g, res |-> Sin, registro |-> "destino_no_encontrada", busquedas |-> 0]
    ELSE IF criterio \notin Criterios
    THEN [G |-> g, res |-> Sin, registro |-> "criterio_no_valido", busquedas |-> 0]
    ELSE LET g1 == IF criterio = "combinado" THEN AdjuntarCombinado(g) ELSE g
         IN IF origen = destino
            THEN [G |-> g1,
                  res |-> [camino |-> Some(<<origen>>), valor |-> Some(0),
                           etiqueta |-> Some("Sin movimiento"), detalles |-> Some(<<>>)],
                  registro |-> "misma_estacion", busquedas |-> 0]
            ELSE [G |-> g1] @@ BuscarRuta(g1, origen, destino, criterio, algoritmo)

\* encontrar_ruta that does not validate the destination
encontrar_ruta_sin_validar_destino(g, origen, destino, criterio, algoritmo) ==
    IF ~validar_estacion(g, origen)
    THEN [G |-> g, res |-> Sin, registro |-> "origen_no_encontrada", busquedas |-> 0]
    ELSE IF origen = destino
    THEN [G |-> g,
          res |-> [camino |-> Some(<<origen>>), valor |-> Some(0),
                   etiqueta |-> Some("Sin movimiento"), detalles |-> Some(<<>>)],
          registro |-> "misma_estacion", busquedas |-> 0]
    ELSE IF criterio \notin Criterios
    THEN [G |-> g, res |-> Sin, registro |-> "criterio_no_valido", busquedas |-> 0]
    ELSE LET g1 == IF criterio = "combinado" THEN AdjuntarCombinado(g) ELSE g
         IN [G |-> g1] @@ BuscarRuta(g1, origen, destino, criterio, algoritmo)

\* encontrar_ruta that attaches the combined value under every criterion
encontrar_ruta_siempre_combinado(g, origen, destino, criterio, algoritmo) ==
    IF ~validar_estacion(g, origen)
    THEN [G |-> g, res |-> Sin, registro |-> "origen_no_encontrada", busquedas |-> 0]
    ELSE IF ~validar_estacion(g, destino)
    THEN [G |-> g, res |-> Sin, registro |-> "destino_no_encontrada", busquedas |-> 0]
    ELSE IF origen = destino
    THEN [G |-> g,
          res |-> [camino |-> Some(<<origen>>), valor |-> Some(0),
                   etiqueta |-> Some("Sin movimiento"), detalles |-> Some(<<>>)],
          registro |-> "misma_estacion", busquedas |-> 0]
    ELSE IF criterio \notin Criterios
    THEN [G |-> g, res |-> Sin, registro |-> "criterio_no_valido", busquedas |-> 0]
    ELSE LET g1 == AdjuntarCombinado(g)
         IN [G |-> g1] @@ BuscarRuta(g1, origen, destino, criterio, algoritmo)

\* encontrar_ruta: the graph after the call, the tuple returned, what was logged
\* and the number of searches (calls of nx.*_path and nx.*_path_length) begun
encontrar_ruta(g, origen, destino, criterio, algoritmo) ==
    IF ~validar_estacion(g, origen)
    THEN [G |-> g, res |-> Sin, registro |-> "origen_no_encontrada", busquedas |-> 0]
    ELSE IF ~validar_estacion(g, destino)
    THEN [G |-> g, res |-> Sin, registro |-> "destino_no_encontrada", busquedas |-> 0]
    ELSE IF origen = destino
    THEN [G |-> g,
          res |-> [camino |-> Some(<<origen>>), valor |-> Some(0),
                   etiqueta |-> Some("Sin movimiento"), detalles |-> Some(<<>>)],
          registro |-> "misma_estacion", busquedas |-> 0]
    ELSE IF criterio \notin Criterios
    THEN [G |-> g, res |-> Sin, registro |-> "criterio_no_valido", busquedas |-> 0]
    ELSE LET g1 == IF criterio = "combinado" THEN AdjuntarCombinado(g) ELSE g
         IN [G |-> g1] @@ BuscarRuta(g1, origen, destino, criterio, algoritmo)

\* the loop over datos["estaciones"] of _procesar_datos (lines 74-81)
RECURSIVE AgregarEstaciones(_, _, _)
AgregarEstaciones(g, estaciones, i) ==
    IF i > Len(estaciones) THEN [exc |-> "", G |-> g]
    ELSE LET estacion == estaciones[i]
         IN IF {"id", "lon", "lat", "nombre"} \subseteq DOMAIN estacion
            THEN AgregarEstaciones(
                     add_node(g, estacion["id"],
                              [pos |-> <<estacion["lon"], estacion["lat"]>>,
                               nombre |-> estacion["nombre"],
                               tipo |-> Get(estacion, "tipo", "normal"),
                               servicios |-> Get(estacion, "servicios", <<>>)]),
                     estaciones, i + 1)
            ELSE [exc |-> "KeyError", G |-> g]

\* the loop over datos["rutas"] of _procesar_datos (lines 84-93)
RECURSIVE AgregarRutas(_, _, _)
AgregarRutas(g, rutas, i) ==
    IF i > Len(rutas) THEN [exc |-> "", G |-> g]
    ELSE LET ruta == rutas[i]
         IN IF {"origen", "destino", "tiempo", "costo"} \subseteq DOMAIN ruta
            THEN AgregarRutas(
                     add_edge(g, ruta["origen"], ruta["destino"],
                              [tiempo |-> ruta["tiempo"],
                               costo |-> ruta["costo"],
                               distancia |-> Get(ruta, "distancia", 0),
                               medio |-> Get(ruta, "medio", "bus"),
                               frecuencia |-> Get(ruta, "frecuencia", 15)]),
                     rutas, i + 1)
            ELSE [exc |-> "KeyError", G |-> g]

\* _procesar_datos: the graph built, or the exception that ends __init__
_procesar_datos(g, d) ==
    LET e == AgregarEstaciones(g, d.estaciones, 1)
    IN IF e.exc # "" THEN e ELSE AgregarRutas(e.G, d.rutas, 1)

-----------------------------------------------------------------------------
(* Inputs                                                                  *)

MaxRutas == 3
MaxPeso == 2

Ids == {"A", "B", "C"}
\* an id that appears nowhere in the file
Desconocida == "Z"

Nombre(id) == "Estacion " \o id

Estacion(id, lon, lat) == [id |-> id, nombre |-> Nombre(id), lon |-> lon, lat |-> lat]

\* the station records of the file: the three stations; or without a record
\* for B; or with a record for B that lacks its name
EntradasEstaciones ==
    { <<Estacion("A", 0, 0), Estacion("B", 0, 1), Estacion("C", 1, 1)>>,
      <<Estacion("A", 0, 0), Estacion("C", 1, 1)>>,
      <<Estacion("A", 0, 0), [id |-> "B", lon |-> 0, lat |-> 1], Estacion("C", 1, 1)>> }

\* endpoints of the route records, in file order: the triangle, and one pair
\* a second time the other way round
Extremos == << <<"A", "B">>, <<"B", "C">>, <<"A", "C">>, <<"C", "A">> >>

\* a route record with time t: the fare falls as the time grows, and the
\* optional fields are absent on the records with time 0
Ruta(ext, t) ==
    IF t = 0
    THEN [origen |-> ext[1], destino |-> ext[2], tiempo |-> t, costo |-> MaxPeso - t]
    ELSE [origen |-> ext[1], destino |-> ext[2], tiempo |-> t, costo |-> MaxPeso - t,
          distancia |-> MaxPeso + 1 - t,
          medio |-> IF t % 2 = 1 THEN "metro" ELSE "tren",
          frecuencia |-> 5 * t]

\* the k-th least element of a set of numbers
Kesimo(S, k) == CHOOSE i \in S : Cardinality({j \in S : j < i}) = k - 1

\* the network of three stations with routes A-B (time 5, cost 2),
\* B-C (time 3, cost 4) and A-C (time 10, cost 1)
Escenario ==
    << [origen |-> "A", destino |-> "B", tiempo |-> 5, costo |-> 2],
       [origen |-> "B", destino |-> "C", tiempo |-> 3, costo |-> 4],
       [origen |-> "A", destino |-> "C", tiempo |-> 10, costo |-> 1] >>

\* the route records of the file: at most MaxRutas of the endpoints above,
\* in order, each with any time in 0..MaxPeso
RutasAcotadas ==
    UNION { { [k \in 1..Cardinality(S) |-> Ruta(Extremos[Kesimo(S, k)], f[Kesimo(S, k)])]
              : f \in [S -> 0..MaxPeso] }
            : S \in {T \in SUBSET (1..Len(Extremos)) : Cardinality(T) <= MaxRutas} }

EntradasRutas == RutasAcotadas \cup {Escenario}

IdsConsulta == Ids \cup {Desconocida}
CriteriosConsulta == Criterios \cup {"otro"}
AlgoritmosConsulta == Algoritmos \cup {"otro"}

-----------------------------------------------------------------------------
(* The state machine                                                       *)

SinConsulta == [origen |-> "", destino |-> "", criterio |-> "", algoritmo |-> ""]

\* the callers that may be inside encontrar_ruta at the same time
Hilos == {"h1", "h2"}

\* a caller outside encontrar_ruta: its position, the arguments of its call,
\* the locals of the call (the index of the edge the loop is at, the value
\* computed for it, camino_optimo, valor_optimo) and the tuple returned
HiloLibre ==
    [pc |-> "libre", consulta |-> SinConsulta, i |-> 0, tmp |-> 0,
     camino |-> None, valor |-> None, res |-> Sin, registro |-> ""]

Init ==
    /\ datos \in [estaciones : EntradasEstaciones, rutas : EntradasRutas]
    /\ G = GrafoVacio
    /\ pc = "inicio"
    /\ consulta = SinConsulta
    /\ res = Sin
    /\ registro = ""
    /\ busquedas = 0
    /\ hilos = [h \in Hilos |-> HiloLibre]

\* __init__: the graph is built, or the exception is logged and the process exits
Inicializar ==
    /\ pc = "inicio"
    /\ LET r == _procesar_datos(G, datos)
       IN IF r.exc = ""
          THEN G' = r.G /\ pc' = "listo" /\ registro' = "inicializado"
          ELSE G' = G /\ pc' = "terminado" /\ registro' = "error_al_inicializar"
    /\ UNCHANGED <<datos, consulta, res, busquedas, hilos>>

\* a call of encontrar_ruta on the built system
Consultar(origen, destino, criterio, algoritmo) ==
    /\ pc = "listo"
    /\ LET r == encontrar_ruta(G, origen, destino, criterio, algoritmo)
       IN /\ G' = r.G
          /\ res' = r.res
          /\ registro' = r.registro
          /\ busquedas' = r.busquedas
    /\ consulta' = [origen |-> origen, destino |-> destino,
                    criterio |-> criterio, algoritmo |-> algoritmo]
    /\ pc' = "respondido"
    /\ UNCHANGED <<datos, hilos>>

\* the caller takes the tuple returned; the system is ready for another call
Entregar ==
    /\ pc = "respondido"
    /\ pc' = "listo"
    /\ consulta' = SinConsulta
    /\ res' = Sin
    /\ registro' = ""
    /\ busquedas' = 0
    /\ UNCHANGED <<datos, G, hilos>>

Next ==
    \/ Inicializar
    \/ Entregar
    \/ \E origen \in IdsConsulta, destino \in IdsConsulta,
          criterio \in CriteriosConsulta, algoritmo \in AlgoritmosConsulta :
          Consultar(origen, destino, criterio, algoritmo)

Spec == Init /\ [][Next]_vars

-----------------------------------------------------------------------------
(* Reference notions the properties are stated with                        *)

\* the ids that have a station record in the file
Declaradas == {datos.estaciones[i]["id"] : i \in 1..Len(datos.estaciones)}

\* the weight of an edge under a criterion, from the edge's own attributes
\* (the combined value in tenths)
PesoRef(d, criterio) ==
    CASE criterio = "tiempo" -> d["tiempo"]
      [] criterio = "costo" -> d["costo"]
      [] criterio = "distancia" -> d["distancia"]
      [] criterio = "combinado" -> 5 * d["tiempo"] + 3 * d["costo"] + 2 * d["distancia"]

\* the paths of the graph from o to d that repeat no node
CaminosSimples(g, o, d) ==
    { p \in UNION { [1..n -> NodeSet(g)] : n \in 2..Len(g.nodes) } :
         /\ p[1] = o
         /\ p[Len(p)] = d
         /\ \A i, j \in 1..Len(p) : i # j => p[i] # p[j]
         /\ \A i \in 1..(Len(p) - 1) : {p[i], p[i + 1]} \in DOMAIN g.edge }

Conectadas(g, o, d) == CaminosSimples(g, o, d) # {}

RECURSIVE CostoRef(_, _, _, _)
CostoRef(g, p, criterio, i) ==
    IF i >= Len(p) THEN 0
    ELSE PesoRef(g.edge[{p[i], p[i + 1]}], criterio) + CostoRef(g, p, criterio, i + 1)

MinimoRef(g, o, d, criterio) ==
    LET costos == {CostoRef(g, p, criterio, 1) : p \in CaminosSimples(g, o, d)}
    IN CHOOSE m \in costos : \A c \in costos : m <= c

EsOptimo(g, camino, o, d, criterio) ==
    /\ camino \in CaminosSimples(g, o, d)
    /\ CostoRef(g, camino, criterio, 1) = MinimoRef(g, o, d, criterio)

OtroAlgoritmo(a) == IF a = "dijkstra" THEN "astar" ELSE "dijkstra"

\* a call with a recognised criterion and algorithm between two distinct
\* nodes of the graph has returned
RespondidaValida ==
    /\ pc = "respondido"
    /\ consulta.criterio \in Criterios
    /\ consulta.algoritmo \in Algoritmos
    /\ consulta.origen # consulta.destino
    /\ consulta.origen \in NodeSet(G)
    /\ consulta.destino \in NodeSet(G)

-----------------------------------------------------------------------------
(* Properties                                                              *)

\* C1: for distinct stations of the graph joined by a path and any of the
\* four criteria, the call with "dijkstra" and the call with "astar" return
\* the same total value, and each path returned is a path of least total
\* weight for the criterion.
C1_DijkstraAstarCoinciden ==
    (RespondidaValida /\ Conectadas(G, consulta.origen, consulta.destino)) =>
        LET otro == encontrar_ruta(G, consulta.origen, consulta.destino,
                                   consulta.criterio, OtroAlgoritmo(consulta.algoritmo)).res
        IN /\ otro.valor = res.valor
           /\ res.camino # None =>
                 EsOptimo(G, res.camino[1], consulta.origen, consulta.destino, consulta.criterio)
           /\ otro.camino # None =>
                 EsOptimo(G, otro.camino[1], consulta.origen, consulta.destino, consulta.criterio)

\* a call with "astar" has returned a path of two segments although a route
\* joins origin and destination directly
C1_Witness ==
    /\ RespondidaValida
    /\ consulta.algoritmo = "astar"
    /\ res.camino # None
    /\ Len(res.camino[1]) = 3
    /\ {consulta.origen, consulta.destino} \in DOMAIN G.edge

\* C2: for distinct stations with a record joined by a path, the total value
\* returned is the least sum of the criterion's attribute over the paths from
\* origin to destination; on the network A-B (5, 2), B-C (3, 4), A-C (10, 1)
\* the query (A, C, tiempo, dijkstra) returns [A, B, C] with total 8 and
\* (A, C, costo, dijkstra) returns [A, C] with total 1.
C2_ValorMinimo ==
    (/\ RespondidaValida
     /\ {consulta.origen, consulta.destino} \subseteq Declaradas
     /\ Conectadas(G, consulta.origen, consulta.destino)) =>
        /\ res.valor = Some(MinimoRef(G, consulta.origen, consulta.destino, consulta.criterio))
        /\ (/\ datos.rutas = Escenario
            /\ consulta = [origen |-> "A", destino |-> "C",
                           criterio |-> "tiempo", algoritmo |-> "dijkstra"])
              => res.camino = Some(<<"A", "B", "C">>) /\ res.valor = Some(8)
        /\ (/\ datos.rutas = Escenario
            /\ consulta = [origen |-> "A", destino |-> "C",
                           criterio |-> "costo", algoritmo |-> "dijkstra"])
              => res.camino = Some(<<"A", "C">>) /\ res.valor = Some(1)

\* C3: a call with origin equal to destination, a node of the graph, returns
\* the path of that one station, total 0 and no segments, whatever the
\* criterion and the algorithm; it begins no search and leaves the graph as
\* it was.
C3_MismaEstacion ==
    [][(/\ pc = "listo"
        /\ pc' = "respondido"
        /\ consulta'.origen = consulta'.destino
        /\ consulta'.origen \in NodeSet(G))
       => (/\ res'.camino = Some(<<consulta'.origen>>)
           /\ res'.valor = Some(0)
           /\ res'.detalles = Some(<<>>)
           /\ busquedas' = 0
           /\ G' = G)]_vars

\* a combined query from a station to itself has returned on a graph with
\* routes
C3_Witness ==
    /\ pc = "respondido"
    /\ consulta.origen = consulta.destino
    /\ consulta.origen \in NodeSet(G)
    /\ consulta.criterio = "combinado"
    /\ DOMAIN G.edge # {}
    /\ res.camino = Some(<<consulta.origen>>)

\* C4: a call whose origin or destination is no node of the graph returns the
\* tuple of four None, begins no search and leaves the graph as it was, also
\* when the criterion is "combinado".
C4_EstacionDesconocida ==
    [][(/\ pc = "listo"
        /\ pc' = "respondido"
        /\ (consulta'.origen \notin NodeSet(G) \/ consulta'.destino \notin NodeSet(G)))
       => (/\ res' = Sin
           /\ busquedas' = 0
           /\ G' = G)]_vars

\* a combined query from a station to an id that is no node has returned on
\* a graph with routes
C4_Witness ==
    /\ pc = "respondido"
    /\ consulta.origen \in NodeSet(G)
    /\ consulta.destino \notin NodeSet(G)
    /\ consulta.criterio = "combinado"
    /\ consulta.algoritmo \in Algoritmos
    /\ DOMAIN G.edge # {}
    /\ res = Sin

\* C5 as stated: a call with an unrecognised criterion or an unrecognised
\* algorithm returns no path and no value, for every origin and destination
\* in the graph, and an unrecognised criterion begins no search.
C5_Original ==
    (/\ pc = "respondido"
     /\ consulta.origen \in NodeSet(G)
     /\ consulta.destino \in NodeSet(G)
     /\ (consulta.criterio \notin Criterios \/ consulta.algoritmo \notin Algoritmos))
    => (/\ res.camino = None
        /\ res.valor = None
        /\ consulta.criterio \notin Criterios => busquedas = 0)

\* C5: a call between two distinct nodes of the graph with an unrecognised
\* criterion or an unrecognised algorithm returns no path and no value, and
\* an unrecognised criterion begins no search.
C5_CriterioAlgoritmoInvalido ==
    (/\ pc = "respondido"
     /\ consulta.origen \in NodeSet(G)
     /\ consulta.destino \in NodeSet(G)
     /\ consulta.origen # consulta.destino
     /\ (consulta.criterio \notin Criterios \/ consulta.algoritmo \notin Algoritmos))
    => (/\ res.camino = None
        /\ res.valor = None
        /\ consulta.criterio \notin Criterios => busquedas = 0)

\* a call with a recognised criterion and an unrecognised algorithm between
\* two stations joined by a route has returned
C5_Witness ==
    /\ pc = "respondido"
    /\ consulta.origen # consulta.destino
    /\ {consulta.origen, consulta.destino} \in DOMAIN G.edge
    /\ consulta.criterio \in Criterios
    /\ consulta.algoritmo \notin Algoritmos
    /\ res = Sin

\* C6: between two distinct nodes of the graph that no path joins, the call
\* ends in the no-path branch and returns the tuple of four None, with
\* "dijkstra" and with "astar", under every recognised criterion.
C6_SinCamino ==
    (RespondidaValida /\ ~Conectadas(G, consulta.origen, consulta.destino)) =>
        /\ res = Sin
        /\ registro = "no_existe_ruta"
        /\ LET otro == encontrar_ruta(G, consulta.origen, consulta.destino,
                                      consulta.criterio, OtroAlgoritmo(consulta.algoritmo))
           IN otro.res = Sin /\ otro.registro = "no_existe_ruta"

\* a query between two stations in different components of a graph with a
\* route has returned
C6_Witness ==
    /\ RespondidaValida
    /\ ~Conectadas(G, consulta.origen, consulta.destino)
    /\ DOMAIN G.edge # {}
    /\ {consulta.origen, consulta.destino} \subseteq Declaradas
    /\ res = Sin

\* the kind of failure a call ended in, read from what it logged
ClaseDeFallo(r) ==
    CASE r \in {"origen_no_encontrada", "destino_no_encontrada"} -> "estacion_desconocida"
      [] r \in {"criterio_no_valido", "algoritmo_no_valido"} -> "parametro_no_valido"
      [] r = "no_existe_ruta" -> "sin_camino"
      [] r = "error_al_buscar" -> "defecto_interno"
      [] OTHER -> ""

\* C7: the tuple a failed call returns tells the kind of failure: a call on
\* the same graph that fails in another way (unknown station, unrecognised
\* criterion or algorithm, no path, internal error) returns a different tuple.
C7_FallosDistinguibles ==
    (pc = "respondido" /\ ClaseDeFallo(registro) # "") =>
        \A o \in IdsConsulta, d \in IdsConsulta,
           c \in CriteriosConsulta, a \in AlgoritmosConsulta :
            LET otra == encontrar_ruta(G, o, d, c, a)
            IN (/\ ClaseDeFallo(otra.registro) # ""
                /\ ClaseDeFallo(otra.registro) # ClaseDeFallo(registro))
               => otra.res # res

\* the ids the route records of the file refer to
Referidas ==
    UNION { {datos.rutas[i]["origen"], datos.rutas[i]["destino"]} : i \in 1..Len(datos.rutas) }

\* C8: construction fails when a route record refers to an id without a
\* station record; so in a built graph both ends of every edge are stations
\* of the file, each with a name and a position.
C8_RutasEntreEstaciones ==
    /\ ~(Referidas \subseteq Declaradas) => pc \notin {"listo", "respondido"}
    /\ pc \in {"listo", "respondido"} =>
          \A e \in DOMAIN G.edge : \A n \in e :
              n \in Declaradas /\ {"nombre", "pos"} \subseteq DOMAIN G.attr[n]

Columna(criterio) ==
    CASE criterio = "tiempo" -> "Tiempo (min)"
      [] criterio = "costo" -> "Costo ($)"
      [] criterio = "distancia" -> "Distancia (km)"

RECURSIVE SumaColumna(_, _, _)
SumaColumna(detalles, columna, i) ==
    IF i > Len(detalles) THEN 0
    ELSE detalles[i][columna] + SumaColumna(detalles, columna, i + 1)

\* C9: when a call with criterion tiempo (costo, distancia) between distinct
\* stations succeeds, the time (cost, distance) column of the segments
\* returned adds up to the total value returned.
C9_SumaSegmentos ==
    (/\ pc = "respondido"
     /\ res.camino # None
     /\ consulta.origen # consulta.destino
     /\ consulta.criterio \in {"tiempo", "costo", "distancia"})
    => SumaColumna(res.detalles[1], Columna(consulta.criterio), 1) = res.valor[1]

\* a query by distance has returned two segments with a positive total
C9_Witness ==
    /\ pc = "respondido"
    /\ consulta.criterio = "distancia"
    /\ res.camino # None
    /\ Len(res.detalles[1]) = 2
    /\ res.valor[1] > 0

Numeral == <<"1", "2", "3", "4", "5", "6">>

\* the graph without the combined value of its edges
SinCombinado(g) ==
    [g EXCEPT !.edge = [e \in DOMAIN g.edge |->
                           [k \in DOMAIN g.edge[e] \ {"combinado"} |-> g.edge[e][k]]]]

\* C10: when a call between distinct stations succeeds with a path of n
\* stations, the segments returned are n-1 rows in the order of the path;
\* row i is numbered i, goes from the i-th to the (i+1)-th station of the
\* path and carries the time, cost, distance, mode and frequency of the edge
\* between them; a path of fewer than two stations gives no rows; stations,
\* routes and their attributes are as before the call.
C10_Descomposicion ==
    [][(/\ pc = "listo"
        /\ pc' = "respondido"
        /\ res'.camino # None
        /\ consulta'.origen # consulta'.destino)
       => LET p == res'.camino[1]
              det == res'.detalles[1]
          IN /\ Len(det) = Len(p) - 1
             /\ \A i \in 1..Len(det) :
                   LET e == G.edge[{p[i], p[i + 1]}]
                   IN /\ det[i]["Segmento"] = Numeral[i]
                      /\ det[i]["Origen ID"] = p[i]
                      /\ det[i]["Destino ID"] = p[i + 1]
                      /\ det[i]["Tiempo (min)"] = e["tiempo"]
                      /\ det[i]["Costo ($)"] = e["costo"]
                      /\ det[i]["Distancia (km)"] = e["distancia"]
                      /\ det[i]["Medio"] = e["medio"]
                      /\ det[i]["Frecuencia (min)"] = e["frecuencia"]
             /\ _generar_detalles_ruta(G, <<p[1]>>, consulta'.criterio).val = Some(<<>>)
             /\ _generar_detalles_ruta(G, <<>>, consulta'.criterio).val = Some(<<>>)
             /\ SinCombinado(G') = SinCombinado(G)]_vars

\* a query has returned two segments, the second one by metro
C10_Witness ==
    /\ pc = "respondido"
    /\ res.camino # None
    /\ Len(res.camino[1]) = 3
    /\ Len(res.detalles[1]) = 2
    /\ res.detalles[1][2]["Medio"] = "metro"
    /\ res.detalles[1][1]["Medio"] = "bus"

\* C12: once the graph is built, no step changes the stations, the routes or
\* a route's time, cost, distance, mode or frequency; the graph changes only
\* by a call with criterion "combinado", which attaches the combined value.
C12_SoloCombinadoCambia ==
    [][(pc = "listo" \/ pc = "respondido") =>
         (/\ SinCombinado(G') = SinCombinado(G)
          /\ (G' # G) => (pc' = "respondido" /\ consulta'.criterio = "combinado"))]_vars

\* a query by time has returned a path on a graph to which an earlier query
\* attached the combined value
C12_Witness ==
    /\ pc = "respondido"
    /\ consulta.criterio = "tiempo"
    /\ res.camino # None
    /\ Len(res.camino[1]) = 3
    /\ \A e \in DOMAIN G.edge : "combinado" \in DOMAIN G.edge[e]

\* the attributes of an edge that make up its weight under a criterion
AtributosDe(criterio) ==
    IF criterio = "combinado" THEN {"tiempo", "costo", "distancia"} ELSE {criterio}

\* the graph with one attribute of one edge raised by one
ConAumento(g, e, atributo) == [g EXCEPT !.edge[e][atributo] = @ + 1]

\* the total value the call that has returned gives again on graph g
ValorRepetido(g) ==
    encontrar_ruta(g, consulta.origen, consulta.destino,
                   consulta.criterio, consulta.algoritmo).res.valor

\* C13: when a query has succeeded, the same query on the graph with the
\* weight of any one edge raised returns no smaller total value.
C13_Monotonia ==
    (RespondidaValida /\ res.valor # None) =>
        \A e \in DOMAIN G.edge : \A atributo \in AtributosDe(consulta.criterio) :
            LET v == ValorRepetido(ConAumento(G, e, atributo))
            IN v # None => v[1] >= res.valor[1]

\* a query has succeeded over two segments, and raising the weight of an
\* edge makes its total value greater
C13_Witness ==
    /\ RespondidaValida
    /\ res.valor # None
    /\ Len(res.camino[1]) = 3
    /\ \E e \in DOMAIN G.edge : \E atributo \in AtributosDe(consulta.criterio) :
          LET v == ValorRepetido(ConAumento(G, e, atributo))
          IN v # None /\ v[1] > res.valor[1]

\* C15: the path a successful query between distinct stations returns goes
\* from the origin to the destination along edges of the graph and repeats
\* no station, and the total value returned is the sum of the criterion's
\* weight over the edges of that path.
C15_CaminoYValor ==
    (/\ pc = "respondido"
     /\ consulta.origen # consulta.destino
     /\ res.camino # None)
    => /\ res.camino[1] \in CaminosSimples(G, consulta.origen, consulta.destino)
       /\ res.valor = Some(CostoRef(G, res.camino[1], consulta.criterio, 1))

\* a combined query with "astar" has returned a path of two segments
C15_Witness ==
    /\ pc = "respondido"
    /\ consulta.algoritmo = "astar"
    /\ consulta.criterio = "combinado"
    /\ res.camino # None
    /\ Len(res.camino[1]) = 3
    /\ res.valor[1] > 0

-----------------------------------------------------------------------------
(* Files with several route records for one pair of stations               *)

\* endpoints of the route records, in file order: the pair A, C three times,
\* once the other way round, and a route from B to C
ExtremosDuplicados == << <<"A", "C">>, <<"C", "A">>, <<"A", "C">>, <<"B", "C">> >>

RutasDuplicadas ==
    UNION { { [k \in 1..Cardinality(S) |->
                  Ruta(ExtremosDuplicados[Kesimo(S, k)], f[Kesimo(S, k)])]
              : f \in [S -> 0..MaxPeso] }
            : S \in {T \in SUBSET (1..Len(ExtremosDuplicados)) : Cardinality(T) <= MaxRutas} }

InitDuplicadas ==
    /\ datos \in [estaciones : {<<Estacion("A", 0, 0), Estacion("B", 0, 1), Estacion("C", 1, 1)>>},
                  rutas : RutasDuplicadas]
    /\ G = GrafoVacio
    /\ pc = "inicio"
    /\ consulta = SinConsulta
    /\ res = Sin
    /\ registro = ""
    /\ busquedas = 0
    /\ hilos = [h \in Hilos |-> HiloLibre]

SpecDuplicadas == InitDuplicadas /\ [][Next]_vars

\* the unordered pair of stations a route record joins
Par(ruta) == {ruta["origen"], ruta["destino"]}

\* the last record of the file for a pair
UltimaRuta(par) ==
    LET i == CHOOSE i \in 1..Len(datos.rutas) :
                 /\ Par(datos.rutas[i]) = par
                 /\ \A j \in (i + 1)..Len(datos.rutas) : Par(datos.rutas[j]) # par
    IN datos.rutas[i]

\* the attributes a record stands for: distance 0, mode bus and frequency 15
\* when absent
AtributosDeRuta(ruta) ==
    [tiempo |-> ruta["tiempo"],
     costo |-> ruta["costo"],
     distancia |-> IF "distancia" \in DOMAIN ruta THEN ruta["distancia"] ELSE 0,
     medio |-> IF "medio" \in DOMAIN ruta THEN ruta["medio"] ELSE "bus",
     frecuencia |-> IF "frecuencia" \in DOMAIN ruta THEN ruta["frecuencia"] ELSE 15]

RECURSIVE CostoSegunArchivo(_, _, _)
CostoSegunArchivo(p, criterio, i) ==
    IF i >= Len(p) THEN 0
    ELSE PesoRef(AtributosDeRuta(UltimaRuta({p[i], p[i + 1]})), criterio)
         + CostoSegunArchivo(p, criterio, i + 1)

\* C16: with several route records for one pair of stations, in either
\* orientation, construction succeeds and the graph has one edge for the
\* pair, whose time, cost, distance, mode and frequency are those of the last
\* such record (defaults for its absent fields); the total value and the
\* segments of a successful query are made of those values.
C16_UltimoRegistro ==
    /\ pc # "terminado"
    /\ pc \in {"listo", "respondido"} =>
          /\ DOMAIN G.edge = {Par(datos.rutas[i]) : i \in 1..Len(datos.rutas)}
          /\ \A e \in DOMAIN G.edge :
                /\ SinCombinado(G).edge[e] = AtributosDeRuta(UltimaRuta(e))
                /\ \A u \in e : Cardinality({i \in 1..Len(G.adj[u]) : {u, G.adj[u][i]} = e}) = 1
    /\ (pc = "respondido" /\ consulta.origen # consulta.destino /\ res.camino # None) =>
          LET p == res.camino[1]
              det == res.detalles[1]
          IN /\ res.valor = Some(CostoSegunArchivo(p, consulta.criterio, 1))
             /\ \A i \in 1..Len(det) :
                   LET a == AtributosDeRuta(UltimaRuta({p[i], p[i + 1]}))
                   IN /\ det[i]["Tiempo (min)"] = a.tiempo
                      /\ det[i]["Costo ($)"] = a.costo
                      /\ det[i]["Distancia (km)"] = a.distancia
                      /\ det[i]["Medio"] = a.medio
                      /\ det[i]["Frecuencia (min)"] = a.frecuencia

\* a query has succeeded over two segments, one of them along a pair with
\* three records, in both orientations, of which an earlier one has a
\* distance and another time and the last one has no optional field
C16_Witness ==
    /\ pc = "respondido"
    /\ res.camino = Some(<<"B", "C", "A">>)
    /\ Len(datos.rutas) >= 3
    /\ Par(datos.rutas[1]) = {"A", "C"}
    /\ datos.rutas[2]["origen"] = "C"
    /\ datos.rutas[2]["destino"] = "A"
    /\ "distancia" \in DOMAIN datos.rutas[1]
    /\ "distancia" \notin DOMAIN datos.rutas[2]
    /\ datos.rutas[1]["tiempo"] # datos.rutas[2]["tiempo"]
    /\ res.detalles[1][2]["Medio"] = "bus"

-----------------------------------------------------------------------------
(* encontrar_ruta step by step, for callers that share the graph           *)

\* the caller h has returned from its call
Retorno(h, q, r, mensaje) ==
    [hilos EXCEPT ![h] = [HiloLibre EXCEPT !.pc = "fin", !.consulta = q,
                                           !.res = r, !.registro = mensaje]]

MensajeDe(exc) == IF exc = "NetworkXNoPath" THEN "no_existe_ruta" ELSE "error_al_buscar"

\* lines 159-191: the validations, the test for equal stations and the
\* choice of the weight, up to the first edge of the combined loop
Llamar(h, origen, destino, criterio, algoritmo) ==
    /\ pc = "listo"
    /\ hilos[h].pc = "libre"
    /\ LET q == [origen |-> origen, destino |-> destino,
                 criterio |-> criterio, algoritmo |-> algoritmo]
       IN hilos' =
            IF ~validar_estacion(G, origen)
            THEN Retorno(h, q, Sin, "origen_no_encontrada")
            ELSE IF ~validar_estacion(G, destino)
            THEN Retorno(h, q, Sin, "destino_no_encontrada")
            ELSE IF origen = destino
            THEN Retorno(h, q, [camino |-> Some(<<origen>>), valor |-> Some(0),
                                etiqueta |-> Some("Sin movimiento"),
                                detalles |-> Some(<<>>)], "misma_estacion")
            ELSE IF criterio \notin Criterios
            THEN Retorno(h, q, Sin, "criterio_no_valido")
            ELSE IF criterio = "combinado" /\ Len(Aristas(G)) > 0
            THEN [hilos EXCEPT ![h] = [HiloLibre EXCEPT !.pc = "pesando", !.consulta = q, !.i = 1]]
            ELSE [hilos EXCEPT ![h] = [HiloLibre EXCEPT !.pc = "camino", !.consulta = q]]
    /\ UNCHANGED <<datos, G, pc, consulta, res, registro, busquedas>>

\* line 186, right-hand side: the value is computed from the data of the edge
CalcularCombinado(h) ==
    /\ hilos[h].pc = "pesando"
    /\ hilos' = [hilos EXCEPT ![h].tmp = Combinado(G.edge[Aristas(G)[hilos[h].i]]),
                              ![h].pc = "escribiendo"]
    /\ UNCHANGED <<datos, G, pc, consulta, res, registro, busquedas>>

\* line 186, assignment: the value is stored in the data of the edge, and the
\* loop goes on to the next edge
EscribirCombinado(h) ==
    /\ hilos[h].pc = "escribiendo"
    /\ G' = ConCombinado(G, Aristas(G)[hilos[h].i], hilos[h].tmp)
    /\ hilos' = [hilos EXCEPT ![h].i = @ + 1,
                              ![h].tmp = 0,
                              ![h].pc = IF hilos[h].i + 1 > Len(Aristas(G))
                                        THEN "camino" ELSE "pesando"]
    /\ UNCHANGED <<datos, pc, consulta, res, registro, busquedas>>

\* lines 195-203: the algorithm is chosen and the path is searched
BuscarCamino(h) ==
    /\ hilos[h].pc = "camino"
    /\ LET q == hilos[h].consulta
       IN hilos' =
            IF q.algoritmo \notin Algoritmos
            THEN Retorno(h, q, Sin, "algoritmo_no_valido")
            ELSE LET r == IF q.algoritmo = "dijkstra"
                          THEN dijkstra_path(G, q.origen, q.destino, q.criterio)
                          ELSE astar_path(G, q.origen, q.destino, q.criterio)
                 IN IF r.exc # ""
                    THEN Retorno(h, q, Sin, MensajeDe(r.exc))
                    ELSE [hilos EXCEPT ![h].camino = r.val, ![h].pc = "longitud"]
    /\ UNCHANGED <<datos, G, pc, consulta, res, registro, busquedas>>

\* lines 197 and 200: the second search, for the total value
BuscarLongitud(h) ==
    /\ hilos[h].pc = "longitud"
    /\ LET q == hilos[h].consulta
           r == IF q.algoritmo = "dijkstra"
                THEN dijkstra_path_length(G, q.origen, q.destino, q.criterio)
                ELSE astar_path_length(G, q.origen, q.destino, q.criterio)
       IN hilos' = IF r.exc # ""
                   THEN Retorno(h, q, Sin, MensajeDe(r.exc))
                   ELSE [hilos EXCEPT ![h].valor = r.val, ![h].pc = "detalles"]
    /\ UNCHANGED <<datos, G, pc, consulta, res, registro, busquedas>>

\* lines 205-208: the segments are read from the graph and the tuple returned
Detallar(h) ==
    /\ hilos[h].pc = "detalles"
    /\ LET q == hilos[h].consulta
           r == _generar_detalles_ruta(G, hilos[h].camino[1], q.criterio)
       IN hilos' = IF r.exc # ""
                   THEN Retorno(h, q, Sin, MensajeDe(r.exc))
                   ELSE Retorno(h, q, [camino |-> hilos[h].camino,
                                       valor |-> hilos[h].valor,
                                       etiqueta |-> Some(EtiquetaValor(q.criterio)),
                                       detalles |-> r.val], "")
    /\ UNCHANGED <<datos, G, pc, consulta, res, registro, busquedas>>

\* the caller takes the tuple and may call again
Retornar(h) ==
    /\ hilos[h].pc = "fin"
    /\ hilos' = [hilos EXCEPT ![h] = HiloLibre]
    /\ UNCHANGED <<datos, G, pc, consulta, res, registro, busquedas>>

\* the files that join the stations Escenario joins, with any times
RutasConcurrentes ==
    {Escenario} \cup
    { r \in RutasAcotadas :
         /\ Len(r) = Len(Escenario)
         /\ \A k \in 1..Len(r) : /\ r[k]["origen"] = Escenario[k]["origen"]
                                 /\ r[k]["destino"] = Escenario[k]["destino"] }

\* the calls the callers make
ConsultasConcurrentes ==
    { [origen |-> "A", destino |-> "C", criterio |-> c, algoritmo |-> a] :
         c \in {"combinado", "tiempo"}, a \in Algoritmos }
    \cup { [origen |-> "A", destino |-> d, criterio |-> "combinado", algoritmo |-> "dijkstra"] :
              d \in {"A", Desconocida} }

InitConcurrente ==
    /\ datos \in [estaciones : {<<Estacion("A", 0, 0), Estacion("B", 0, 1), Estacion("C", 1, 1)>>},
                  rutas : RutasConcurrentes]
    /\ G = GrafoVacio
    /\ pc = "inicio"
    /\ consulta = SinConsulta
    /\ res = Sin
    /\ registro = ""
    /\ busquedas = 0
    /\ hilos = [h \in Hilos |-> HiloLibre]

NextConcurrente ==
    \/ Inicializar
    \/ \E h \in Hilos : \E q \in ConsultasConcurrentes :
          Llamar(h, q.origen, q.destino, q.criterio, q.algoritmo)
    \/ \E h \in Hilos : CalcularCombinado(h)
    \/ \E h \in Hilos : EscribirCombinado(h)
    \/ \E h \in Hilos : BuscarCamino(h)
    \/ \E h \in Hilos : BuscarLongitud(h)
    \/ \E h \in Hilos : Detallar(h)
    \/ \E h \in Hilos : Retornar(h)

SpecConcurrente == InitConcurrente /\ [][NextConcurrente]_vars

\* the graph as the constructor builds it from the file
GrafoConstruido == _procesar_datos(GrafoVacio, datos).G

\* the total value the call returns when no other call runs
ValorSolo(q) ==
    encontrar_ruta(GrafoConstruido, q.origen, q.destino, q.criterio, q.algoritmo).res.valor

\* C14: with callers running encontrar_ruta at the same time on the shared
\* graph, in every interleaving of their steps (the combined value is written
\* edge by edge, without a lock), the route data stays as built, every call
\* returns the total value it returns when it runs alone, and when no call
\* is running every combined value present equals 0.5*time + 0.3*cost +
\* 0.2*distance, present on every edge once a combined call has come back
\* from the search.
C14_Concurrentes ==
    pc = "listo" =>
       /\ SinCombinado(G) = GrafoConstruido
       /\ \A h \in Hilos :
             hilos[h].pc = "fin" => hilos[h].res.valor = ValorSolo(hilos[h].consulta)
       /\ (\A h \in Hilos : hilos[h].pc \in {"libre", "fin"}) =>
             /\ \A e \in DOMAIN G.edge :
                   "combinado" \in DOMAIN G.edge[e] =>
                       G.edge[e]["combinado"] = PesoRef(G.edge[e], "combinado")
             /\ (\E h \in Hilos : /\ hilos[h].pc = "fin"
                                  /\ hilos[h].consulta.criterio = "combinado"
                                  /\ hilos[h].res.etiqueta = Some("Valor combinado"))
                   => \A e \in DOMAIN G.edge : "combinado" \in DOMAIN G.edge[e]

\* two combined calls overlap: one has both searches behind it and holds a
\* total value, while the other is in the middle of its writes
C14_Witness ==
    /\ hilos["h1"].pc = "detalles"
    /\ hilos["h1"].consulta.criterio = "combinado"
    /\ hilos["h1"].valor # None
    /\ hilos["h1"].valor[1] > 0
    /\ hilos["h2"].pc = "escribiendo"
    /\ hilos["h2"].i = 2
    /\ hilos["h2"].consulta.algoritmo = "astar"

-----------------------------------------------------------------------------
(* Route data that changes between calls                                   *)

\* the number of attributes that may differ from the file at one time
MaxCambios == 1

\* the attributes of the edges of g that differ from the route records of
\* the file
Cambiadas(g) ==
    { x \in (DOMAIN g.edge) \X {"tiempo", "costo", "distancia"} :
         g.edge[x[1]][x[2]] # AtributosDeRuta(UltimaRuta(x[1]))[x[2]] }

\* the holder of the system assigns an attribute of a route in self.G while
\* no call is running
CambiarArista(e, atributo, v) ==
    /\ pc = "listo"
    /\ \A h \in Hilos : hilos[h].pc \in {"libre", "fin"}
    /\ e \in DOMAIN G.edge
    /\ LET g1 == [G EXCEPT !.edge[e][atributo] = v]
       IN /\ Cardinality(Cambiadas(g1)) <= MaxCambios
          /\ G' = g1
    /\ UNCHANGED <<datos, pc, consulta, res, registro, busquedas, hilos>>

\* the calls made while the data changes
ConsultasCambios ==
    { [origen |-> "A", destino |-> "C", criterio |-> "combinado", algoritmo |-> a] :
         a \in Algoritmos }

InitCambios ==
    /\ datos = [estaciones |-> <<Estacion("A", 0, 0), Estacion("B", 0, 1), Estacion("C", 1, 1)>>,
                rutas |-> Escenario]
    /\ G = GrafoVacio
    /\ pc = "inicio"
    /\ consulta = SinConsulta
    /\ res = Sin
    /\ registro = ""
    /\ busquedas = 0
    /\ hilos = [h \in Hilos |-> HiloLibre]

\* the calls come one after another, each caller keeping the tuple it got
NextCambios ==
    \/ Inicializar
    \/ \E h \in Hilos : \E q \in ConsultasCambios :
          /\ \A k \in Hilos : hilos[k].pc \in {"libre", "fin"}
          /\ Llamar(h, q.origen, q.destino, q.criterio, q.algoritmo)
    \/ \E h \in Hilos : CalcularCombinado(h)
    \/ \E h \in Hilos : EscribirCombinado(h)
    \/ \E h \in Hilos : BuscarCamino(h)
    \/ \E h \in Hilos : BuscarLongitud(h)
    \/ \E h \in Hilos : Detallar(h)
    \/ \E h \in Hilos : Retornar(h)
    \/ \E e \in DOMAIN G.edge, atributo \in {"tiempo", "costo", "distancia"}, v \in 0..MaxPeso :
          CambiarArista(e, atributo, v)

SpecCambios == InitCambios /\ [][NextCambios]_vars

\* C11: while a call with criterion "combinado" between two distinct stations
\* searches, the combined value of every edge is 0.5*time + 0.3*cost +
\* 0.2*distance of the attributes the edge has now, whatever the edge data
\* were at earlier combined calls; so the path found and the total value are
\* the least under the present data.
C11_Recalculado ==
    \A h \in Hilos :
       LET t == hilos[h]
       IN (t.consulta.criterio = "combinado" /\ t.pc \in {"camino", "longitud", "detalles"}) =>
             /\ \A e \in DOMAIN G.edge :
                   /\ "combinado" \in DOMAIN G.edge[e]
                   /\ G.edge[e]["combinado"] = PesoRef(G.edge[e], "combinado")
             /\ t.pc \in {"longitud", "detalles"} =>
                   EsOptimo(G, t.camino[1], t.consulta.origen, t.consulta.destino, "combinado")
             /\ t.pc = "detalles" =>
                   t.valor = Some(MinimoRef(G, t.consulta.origen, t.consulta.destino,
                                            "combinado"))

\* a combined call came back with the direct route at the value of the file
\* data; the data were changed, and a second combined call has found the
\* route through B at a lower value
C11_Witness ==
    /\ hilos["h1"].pc = "fin"
    /\ hilos["h1"].consulta.criterio = "combinado"
    /\ hilos["h1"].res.camino = Some(<<"A", "C">>)
    /\ hilos["h1"].res.valor =
          Some(MinimoRef(GrafoConstruido, "A", "C", "combinado"))
    /\ Cambiadas(G) # {}
    /\ hilos["h2"].pc = "detalles"
    /\ hilos["h2"].consulta.criterio = "combinado"
    /\ hilos["h2"].camino = Some(<<"A", "B", "C">>)
    /\ hilos["h2"].valor[1] < hilos["h1"].res.valor[1]

====
